---- MODULE Spec2Model ----
(***************************************************************************)
(* The media processing pipeline of the upload handler (audio extraction,  *)
(* whisper transcription, subtitle burn-in, cleanup) and the range-aware   *)
(* streaming endpoint, as a state machine over the files on disk.          *)
(***************************************************************************)
EXTENDS Integers, Sequences, FiniteSets, TLC

\* Concurrent upload requests.
Jobs == {1, 2}

\* Largest size, in bytes, of a streamed video.
MaxSize == 3

\* Most unlinks that fail in one call of cleanupFiles.
MaxFailing == 1

\* Longest range header, in tokens.
MaxHdrLen == 4

\* Longest captured stdout of whisper, in tokens.
MaxStdoutLen == 3

\* Longest output directory of the burner, in characters.
MaxDirLen == 3

(***************************************************************************)
(* Paths.  multer names every upload video-<Date.now()>-<random><ext>, so  *)
(* each job has its own basename; every other name is derived from it.     *)
(***************************************************************************)
videoPath(j) == <<"uploads/videos/video-N", j>>
audioPath(j) == <<"uploads/audios/video-N-T.wav", j>>
tempAudioPath(j) == <<"uploads/subtitles/video-N-T_temp.wav", j>>
candEnSrt(j) == <<"uploads/subtitles/video-N-T_temp.en.srt", j>>
candSrt(j) == <<"uploads/subtitles/video-N-T_temp.srt", j>>
\* a name whisper may write that the transcriber does not probe
unprobedSrt(j) == <<"uploads/subtitles/video-N-T_temp.wav.srt", j>>
outputFile(j) == <<"uploads/subtitles/video-N-T.srt", j>>
mp4Path(j) == <<"uploads/videos/video-N-temp.mp4", j>>
outputVideoPath(j) == <<"uploads/videos/video-N-subtitled.mp4", j>>
\* path.join(outputDir, 'temp') with outputDir = dirname(videoPath): the job
\* does not enter the name.
tempDir(j) == <<"uploads/videos/temp", 0>>
tempSrtPath(j) == <<"uploads/videos/temp/temp.srt", 0>>

NoPath == <<"", 0>>

possibleOutputFiles(j) == <<candEnSrt(j), candSrt(j), candSrt(j), candEnSrt(j)>>

\* What whisper leaves in the output directory: no file, or its subtitles
\* under one name; for silent audio the file is empty.
WhisperOutputs(j) ==
  {[name |-> NoPath, size |-> 0]} \cup
  [name : {candEnSrt(j), candSrt(j)}, size : {0, 1}] \cup
  {[name |-> unprobedSrt(j), size |-> 1]}

JobPaths(j) ==
  {videoPath(j), audioPath(j), tempAudioPath(j), candEnSrt(j), candSrt(j),
   unprobedSrt(j), outputFile(j), mp4Path(j), outputVideoPath(j)}

Paths == UNION {JobPaths(j) : j \in Jobs} \cup UNION {{tempDir(j), tempSrtPath(j)} : j \in Jobs}

(***************************************************************************)
(* Files.  size is the length in bytes (-1: no such file); text names the  *)
(* job whose speech a subtitle file or a burned video carries (0: none).   *)
(***************************************************************************)
NoFile == [size |-> -1, text |-> 0]
File(n, t) == [size |-> n, text |-> t]

Exists(f, p) == f[p].size >= 0
WriteFile(f, p, c) == [f EXCEPT ![p] = c]
Unlink(f, p) == [f EXCEPT ![p] = NoFile]
UnlinkAll(f, ps) == [p \in DOMAIN f |-> IF p \in ps THEN NoFile ELSE f[p]]
MkTempDir(f, j) == IF Exists(f, tempDir(j)) THEN f ELSE WriteFile(f, tempDir(j), File(0, 0))
RmTempDir(f, j) == UnlinkAll(f, {tempDir(j), tempSrtPath(j)})

Range(s) == {s[i] : i \in DOMAIN s}

VARIABLES
  fs,           \* the disk: path -> file
  db,           \* the saved Video documents
  pc,           \* where each upload handler is suspended
  ext,          \* extension of each job's upload
  tempFiles,    \* the handler's tempFiles array
  running,      \* external processes of the job that are running
  log,          \* history: process starts and exits of the job, in order
  failedAt,     \* history: the point where the job failed ("none" if not)
  err,          \* message prefix of the error the handler's catch received
  resp,         \* statuses sent on the job's response, in order
  unlinkTried,  \* history: paths cleanupFiles tried to unlink
  unlinkFailed, \* history: paths whose unlink in cleanupFiles failed
  burnRead,     \* subtitles the burn process loaded (0 not yet, -1 no file)
  burnInput,    \* the -i argument of the job's burn process (NoPath: none yet)
  closePending, \* a 'close' event still to come after a spawn 'error'
  sreq,         \* the stream request being served (gone: a step of the
                \* handler found no document or no file)
  sresp,        \* the response of the stream request
  stdoutText,   \* the argument of a call of formatTranscriptionToSRT
  srtContent,   \* what that call returned (NoContent: not called yet)
  srtPathText,  \* the characters of the burner's tempSrtPath
  filterText    \* the subtitleFilter built from it (NoContent: not built yet)

jobVars == <<pc, ext, tempFiles, running, log, failedAt, err, resp,
             unlinkTried, unlinkFailed, burnRead, burnInput, closePending>>
streamVars == <<sreq, sresp>>
formatVars == <<stdoutText, srtContent>>
filterVars == <<srtPathText, filterText>>
vars == <<fs, db, jobVars, streamVars, formatVars, filterVars>>

NoContent == <<"undefined">>

NoRequest == [pc |-> "none", vid |-> 0, hdr |-> <<>>, size |-> 0, start |-> 0, end |-> 0,
              gone |-> FALSE]
NoResponse == [status |-> 0, contentRange |-> <<>>, acceptRanges |-> FALSE,
               contentLength |-> -1, body |-> <<>>, piped |-> FALSE]

Init ==
  /\ fs = [p \in Paths |-> NoFile]
  /\ db = {}
  /\ pc = [j \in Jobs |-> "idle"]
  /\ ext = [j \in Jobs |-> ".mp4"]
  /\ tempFiles = [j \in Jobs |-> <<>>]
  /\ running = [j \in Jobs |-> {}]
  /\ log = [j \in Jobs |-> <<>>]
  /\ failedAt = [j \in Jobs |-> "none"]
  /\ err = [j \in Jobs |-> "none"]
  /\ resp = [j \in Jobs |-> <<>>]
  /\ unlinkTried = [j \in Jobs |-> {}]
  /\ unlinkFailed = [j \in Jobs |-> {}]
  /\ burnRead = [j \in Jobs |-> 0]
  /\ burnInput = [j \in Jobs |-> NoPath]
  /\ closePending = [j \in Jobs |-> FALSE]
  /\ sreq = NoRequest
  /\ sresp = NoResponse
  /\ stdoutText = <<>>
  /\ srtContent = NoContent
  /\ srtPathText = <<>>
  /\ filterText = NoContent

(***************************************************************************)
(* Fragments shared by the handler's steps.                                *)
(***************************************************************************)
\* the process p of job j exits: it leaves `running` and the exit is logged
Exited(j, p, how) ==
  /\ running' = [running EXCEPT ![j] = @ \ {p}]
  /\ log' = [log EXCEPT ![j] = Append(@, <<how, p>>)]

\* the process p exits and the continuation spawns q
ExitedAndSpawned(j, p, how, q) ==
  /\ running' = [running EXCEPT ![j] = (@ \ {p}) \cup {q}]
  /\ log' = [log EXCEPT ![j] = Append(Append(@, <<how, p>>), <<"start", q>>)]

ThrowAndRetry(j, where, msg) ==
  /\ pc' = [pc EXCEPT ![j] = "idle"]
  /\ failedAt' = [failedAt EXCEPT ![j] = where]
  /\ err' = [err EXCEPT ![j] = msg]

\* An exception reaches the outer catch of the handler (lines 237-239): the
\* handler calls cleanupFiles(tempFiles) and is suspended on it.
Throw(j, where, msg) ==
  /\ pc' = [pc EXCEPT ![j] = "cleanup"]
  /\ failedAt' = [failedAt EXCEPT ![j] = where]
  /\ err' = [err EXCEPT ![j] = msg]

Goto(j, label) ==
  /\ pc' = [pc EXCEPT ![j] = label]
  /\ UNCHANGED <<failedAt, err>>

(***************************************************************************)
(* POST /upload, lines 124-149: the video-present check, the first entry   *)
(* of tempFiles, and the start of the audio extraction.                    *)
(***************************************************************************)
\* extractAudioFromVideo, lines 9-42: the input check, then the ffmpeg run
ExtractStart(f, j) ==
  IF ~Exists(f, videoPath(j))
    THEN [fs |-> f, threw |-> "extractInput", spawned |-> "none"]
    ELSE [fs |-> f, threw |-> "none", spawned |-> "extract"]

Upload(j, hasVideo, e) ==
  /\ pc[j] = "idle"
  /\ ext' = [ext EXCEPT ![j] = e]
  /\ IF ~hasVideo
       THEN /\ resp' = [resp EXCEPT ![j] = Append(@, 400)]
            /\ Goto(j, "done")
            /\ UNCHANGED <<fs, tempFiles, running, log>>
       ELSE \* multer has stored the upload before the handler runs
            LET f1 == WriteFile(fs, videoPath(j), File(1, j)) IN
            /\ fs' = f1
            /\ tempFiles' = [tempFiles EXCEPT ![j] = <<videoPath(j)>>]
            /\ UNCHANGED resp
            /\ IF ExtractStart(f1, j).threw = "none"
                 THEN /\ running' = [running EXCEPT ![j] = @ \cup {"extract"}]
                      /\ log' = [log EXCEPT ![j] = Append(@, <<"start", "extract">>)]
                      /\ Goto(j, "extracting")
                 ELSE /\ Throw(j, ExtractStart(f1, j).threw, "Video file not found")
                      /\ UNCHANGED <<running, log>>
  /\ UNCHANGED <<burnInput, db, unlinkTried, unlinkFailed, burnRead, closePending,
                 streamVars, formatVars, filterVars>>

(***************************************************************************)
(* extractAudioFromVideo 'end' / 'error', then lines 150-156 of the        *)
(* handler and transcribeWithWhisper up to its first exec (lines 54-76).   *)
(***************************************************************************)
\* transcribeWithWhisper, lines 54-76: the input check, then the first exec
TranscribeStart(f, j) ==
  IF ~Exists(f, audioPath(j))
    THEN [fs |-> f, threw |-> "transcribeInput", spawned |-> "none"]
    ELSE [fs |-> f, threw |-> "none", spawned |-> "convert"]

ExtractExit(j, ok, partial) ==
  /\ pc[j] = "extracting"
  /\ "extract" \in running[j]
  /\ IF ok
       THEN LET f1 == WriteFile(fs, audioPath(j), File(1, j)) IN
            /\ fs' = f1
            /\ tempFiles' = [tempFiles EXCEPT ![j] = Append(@, audioPath(j))]
            /\ IF TranscribeStart(f1, j).threw = "none"
                 THEN /\ ExitedAndSpawned(j, "extract", "ok", "convert")
                      /\ Goto(j, "converting")
                 ELSE /\ Exited(j, "extract", "ok")
                      /\ Throw(j, TranscribeStart(f1, j).threw, "Transcription failed")
       ELSE /\ fs' = IF partial THEN WriteFile(fs, audioPath(j), File(0, j)) ELSE fs
            /\ Exited(j, "extract", "fail")
            /\ Throw(j, "extraction", "Audio extraction failed")
            /\ UNCHANGED tempFiles
  /\ UNCHANGED <<burnInput, db, ext, resp, unlinkTried, unlinkFailed, burnRead, closePending,
                 streamVars, formatVars, filterVars>>

(***************************************************************************)
(* transcribeWithWhisper, lines 76-83: the temp WAV conversion exits and   *)
(* the whisper command is started.                                         *)
(***************************************************************************)
ConvertExit(j, ok, partial) ==
  /\ pc[j] = "converting"
  /\ "convert" \in running[j]
  /\ IF ok
       THEN /\ fs' = WriteFile(fs, tempAudioPath(j), File(1, j))
            /\ ExitedAndSpawned(j, "convert", "ok", "whisper")
            /\ Goto(j, "whisper")
       ELSE /\ fs' = IF partial THEN WriteFile(fs, tempAudioPath(j), File(0, j)) ELSE fs
            /\ Exited(j, "convert", "fail")
            /\ Throw(j, "tempwav", "Transcription failed")
  /\ UNCHANGED <<burnInput, db, ext, tempFiles, resp, unlinkTried, unlinkFailed, burnRead,
                 closePending, streamVars, formatVars, filterVars>>

(***************************************************************************)
(* transcribeWithWhisper, lines 84-136, after whisper exited with code 0.  *)
(***************************************************************************)
FirstExistingSkipHead(f, files) ==
  LET found == {i \in DOMAIN files : i > 1 /\ Exists(f, files[i])}
  IN  IF found = {} THEN NoPath
      ELSE files[CHOOSE i \in found : \A k \in found : i <= k]

\* lines 103-110: the first entry of the list that exists
FirstExisting(f, files) ==
  LET found == {i \in DOMAIN files : Exists(f, files[i])}
  IN  IF found = {} THEN NoPath
      ELSE files[CHOOSE i \in found : \A k \in found : i <= k]

(***************************************************************************)
(* formatTranscriptionToSRT, lines 146-155.  A text is a sequence of       *)
(* tokens: a letter, a blank, a line break, or a bracketed timestamp       *)
(* marker as whisper prints it, which the regular expression of line 148   *)
(* matches.  The result is a sequence of characters and tokens.            *)
(***************************************************************************)
Marker == "[00:00.000 --> 00:05.000]"
StdoutTokens == {"a", " ", "\n", Marker}
Stdouts == UNION {[1 .. n -> StdoutTokens] : n \in 0 .. MaxStdoutLen}

\* text.replace(/\[\d+:\d+\.\d+ --> \d+:\d+\.\d+\]/g, '')
RemoveMarkers(text) == SelectSeq(text, LAMBDA t : t # Marker)

IsSpace(t) == t \in {" ", "\n"}

\* String.prototype.trim
RECURSIVE TrimStart(_)
TrimStart(text) ==
  IF text # <<>> /\ IsSpace(Head(text)) THEN TrimStart(Tail(text)) ELSE text

RECURSIVE TrimEnd(_)
TrimEnd(text) ==
  IF text # <<>> /\ IsSpace(text[Len(text)])
    THEN TrimEnd(SubSeq(text, 1, Len(text) - 1))
    ELSE text

Trim(text) == TrimEnd(TrimStart(text))

\* the template literal of lines 151-154 up to ${cleanText}
SrtHead ==
  <<"1", "\n",
    "0", "0", ":", "0", "0", ":", "0", "0", ",", "0", "0", "0",
    " ", "-", "-", ">", " ",
    "0", "0", ":", "3", "0", ":", "0", "0", "0", "\n">>

formatTranscriptionToSRT(text) == SrtHead \o Trim(RemoveMarkers(text)) \o <<"\n">>

\* fs.writeFileSync(outputFile, srtContent, 'utf8'): the file's length
WrittenSize(content) == Len(content)

TranscribeAfterWhisperNoFallback(f, j, stdout, renameFails) ==
  LET f1 == IF Exists(f, tempAudioPath(j)) THEN Unlink(f, tempAudioPath(j)) ELSE f
      whisperOutput == FirstExisting(f1, possibleOutputFiles(j))
      f2 == WriteFile(Unlink(f1, whisperOutput), outputFile(j), f1[whisperOutput])
  IN  IF whisperOutput = NoPath THEN [fs |-> f1, threw |-> "nooutput"]
      ELSE IF renameFails THEN [fs |-> f1, threw |-> "rename"]
      ELSE IF ~Exists(f2, outputFile(j)) THEN [fs |-> f2, threw |-> "finalmissing"]
      ELSE [fs |-> f2, threw |-> "none"]

\* lines 86-136: the temp WAV is removed, the candidates are probed, then
\* the stdout fallback, the rename and the final check
TranscribeAfterWhisper(f, j, stdout, renameFails) ==
  LET f1 == IF Exists(f, tempAudioPath(j)) THEN Unlink(f, tempAudioPath(j)) ELSE f
      whisperOutput == FirstExisting(f1, possibleOutputFiles(j))
      f2 == WriteFile(Unlink(f1, whisperOutput), outputFile(j), f1[whisperOutput])
  IN  IF whisperOutput = NoPath /\ stdout # <<>>
        THEN [fs |-> WriteFile(f1, outputFile(j),
                               File(WrittenSize(formatTranscriptionToSRT(stdout)), j)),
              threw |-> "none"]
      ELSE IF whisperOutput = NoPath THEN [fs |-> f1, threw |-> "nooutput"]
      ELSE IF renameFails THEN [fs |-> f1, threw |-> "rename"]
      ELSE IF ~Exists(f2, outputFile(j)) THEN [fs |-> f2, threw |-> "finalmissing"]
      ELSE [fs |-> f2, threw |-> "none"]

SrtUsableNoSizeCheck(f, j) == Exists(f, outputFile(j))

\* handler, lines 158-166: the SRT exists and is not empty
SrtUsable(f, j) == Exists(f, outputFile(j)) /\ f[outputFile(j)].size # 0

(***************************************************************************)
(* burnSubtitlesIntoVideo, lines 219-259: the temp directory, the copy of  *)
(* the subtitles and the start of the burn process.                        *)
(***************************************************************************)
processVideoKeepsSource(j) == videoPath(j)

\* lines 181-216: the path processVideo() resolves with
processVideo(j) == IF ext[j] = ".webm" THEN mp4Path(j) ELSE videoPath(j)

\* input: the -i argument of the burn process (lines 234, 242)
BurnSetup(f, j, copyFails) ==
  LET f1 == MkTempDir(f, j)
  IN  IF copyFails
        THEN [fs |-> f1, threw |-> "copy", spawned |-> "none", input |-> NoPath]
        ELSE [fs |-> WriteFile(f1, tempSrtPath(j), f1[outputFile(j)]),
              threw |-> "none", spawned |-> "burn", input |-> processVideo(j)]

BurnStartNoSrtCheck(f, j, copyFails) ==
  IF ~Exists(f, videoPath(j))
    THEN [fs |-> f, threw |-> "burnInput", spawned |-> "none", input |-> NoPath]
  ELSE IF ext[j] = ".webm"
    THEN [fs |-> f, threw |-> "none", spawned |-> "webmconv", input |-> NoPath]
  ELSE BurnSetup(f, j, copyFails)

\* burnSubtitlesIntoVideo, lines 163-218: validation, then processVideo
BurnStart(f, j, copyFails) ==
  IF ~Exists(f, videoPath(j)) \/ ~Exists(f, outputFile(j))
    THEN [fs |-> f, threw |-> "burnInput", spawned |-> "none", input |-> NoPath]
  ELSE IF ext[j] = ".webm"
    THEN [fs |-> f, threw |-> "none", spawned |-> "webmconv", input |-> NoPath]
  ELSE BurnSetup(f, j, copyFails)

(***************************************************************************)
(* The whisper command exits: the rest of transcribeWithWhisper, the       *)
(* handler's checks of the SRT (lines 157-177) and the start of the burn.  *)
(***************************************************************************)
WhisperExit(j, code, out, stdout, renameFails, copyFails) ==
  /\ pc[j] = "whisper"
  /\ "whisper" \in running[j]
  /\ IF code # 0
       THEN /\ fs' = fs
            /\ Exited(j, "whisper", "fail")
            /\ Throw(j, "whisper", "Transcription failed")
            /\ UNCHANGED <<tempFiles, burnInput>>
       ELSE LET f0 == IF out.name = NoPath THEN fs
                      ELSE WriteFile(fs, out.name, File(out.size, j))
                t == TranscribeAfterWhisper(f0, j, stdout, renameFails)
                b == BurnStart(t.fs, j, copyFails)
            IN  IF t.threw # "none"
                  THEN /\ fs' = t.fs
                       /\ Exited(j, "whisper", "ok")
                       /\ Throw(j, t.threw, "Transcription failed")
                       /\ UNCHANGED <<tempFiles, burnInput>>
                ELSE IF ~SrtUsable(t.fs, j)
                  THEN /\ fs' = t.fs
                       /\ Exited(j, "whisper", "ok")
                       /\ Throw(j, "srtcheck", "Transcription failed")
                       /\ UNCHANGED <<tempFiles, burnInput>>
                ELSE /\ fs' = b.fs
                     /\ tempFiles' = [tempFiles EXCEPT ![j] = Append(@, outputFile(j))]
                     /\ burnInput' = [burnInput EXCEPT ![j] = b.input]
                     /\ IF b.threw # "none"
                          THEN /\ Exited(j, "whisper", "ok")
                               /\ Throw(j, b.threw, "Burning subtitles failed")
                          ELSE /\ ExitedAndSpawned(j, "whisper", "ok", b.spawned)
                               /\ Goto(j, IF b.spawned = "burn" THEN "burning" ELSE "webmconv")
  /\ UNCHANGED <<db, ext, resp, unlinkTried, unlinkFailed, burnRead, closePending,
                 streamVars, formatVars, filterVars>>

(***************************************************************************)
(* processVideo, lines 202-212: the webm to mp4 conversion closes; on code *)
(* 0 the burn is set up and started.                                       *)
(***************************************************************************)
WebmConvExit(j, ok, partial, copyFails) ==
  /\ pc[j] = "webmconv"
  /\ "webmconv" \in running[j]
  /\ IF ok
       THEN LET b == BurnSetup(WriteFile(fs, mp4Path(j), File(1, 0)), j, copyFails) IN
            /\ fs' = b.fs
            /\ burnInput' = [burnInput EXCEPT ![j] = b.input]
            /\ IF b.threw # "none"
                 THEN /\ Exited(j, "webmconv", "ok")
                      /\ Throw(j, b.threw, "Burning subtitles failed")
                 ELSE /\ ExitedAndSpawned(j, "webmconv", "ok", "burn")
                      /\ Goto(j, "burning")
       ELSE /\ fs' = IF partial THEN WriteFile(fs, mp4Path(j), File(0, 0)) ELSE fs
            /\ Exited(j, "webmconv", "fail")
            /\ Throw(j, "webmconv", "Burning subtitles failed")
            /\ UNCHANGED burnInput
  /\ UNCHANGED <<db, ext, tempFiles, resp, unlinkTried, unlinkFailed, burnRead,
                 closePending, streamVars, formatVars, filterVars>>

(***************************************************************************)
(* The burn process (ffmpeg with the subtitles filter) opens the subtitle   *)
(* file named in its filter expression: tempSrtPath.  Once it has loaded   *)
(* the subtitles it opens its output (line 250) and starts to write it.    *)
(***************************************************************************)
BurnReadSubs(j) ==
  /\ "burn" \in running[j]
  /\ burnRead[j] = 0
  /\ burnRead' = [burnRead EXCEPT ![j] =
                    IF Exists(fs, tempSrtPath(j)) THEN fs[tempSrtPath(j)].text ELSE -1]
  /\ fs' = IF Exists(fs, tempSrtPath(j))
             THEN WriteFile(fs, outputVideoPath(j), File(0, fs[tempSrtPath(j)].text))
             ELSE fs
  /\ UNCHANGED <<burnInput, db, pc, ext, tempFiles, running, log, failedAt, err, resp,
                 unlinkTried, unlinkFailed, closePending, streamVars, formatVars, filterVars>>

\* close handler, lines 276-286: the temp directory and the intermediate mp4
CloseCleanup(f, j) ==
  LET f1 == RmTempDir(f, j)
  IN  IF ext[j] = ".webm" /\ processVideo(j) # videoPath(j)
        THEN Unlink(f1, processVideo(j))
        ELSE f1

FinalVideoUsableAlways(f, j) == TRUE

\* handler, lines 186-189: the final video is not empty
FinalVideoUsable(f, j) == f[outputVideoPath(j)].size # 0

(***************************************************************************)
(* 'close' of the burn process, lines 275-300, then lines 183-192 of the   *)
(* handler.  outSize is what the process left at outputVideoPath (-1:      *)
(* nothing).  Code 0 needs the subtitles to have been loaded.              *)
(***************************************************************************)
BurnExit(j, code, outSize) ==
  /\ pc[j] = "burning"
  /\ "burn" \in running[j]
  /\ code = 0 => burnRead[j] \in Jobs
  /\ LET f1 == IF outSize >= 0
                 THEN WriteFile(fs, outputVideoPath(j), File(outSize, burnRead[j]))
                 ELSE Unlink(fs, outputVideoPath(j))
         f2 == CloseCleanup(f1, j)
     IN  /\ fs' = f2
         /\ IF code # 0
              THEN /\ Exited(j, "burn", "fail")
                   /\ Throw(j, "burnexit", "Burning subtitles failed")
            ELSE IF ~Exists(f2, outputVideoPath(j))
              THEN /\ Exited(j, "burn", "ok")
                   /\ Throw(j, "outmissing", "Burning subtitles failed")
            ELSE IF ~FinalVideoUsable(f2, j)
              THEN /\ Exited(j, "burn", "ok")
                   /\ Throw(j, "outsize", "Burning subtitles failed")
            ELSE /\ Exited(j, "burn", "ok")
                 /\ Goto(j, "readsrt")
  /\ burnRead' = [burnRead EXCEPT ![j] = 0]
  /\ UNCHANGED <<burnInput, db, ext, tempFiles, resp, unlinkTried, unlinkFailed, closePending,
                 streamVars, formatVars, filterVars>>

BurnErrorUnhandled(j) ==
  /\ pc[j] = "burning"
  /\ "burn" \in running[j]
  /\ burnRead[j] = 0
  /\ Exited(j, "burn", "error")
  /\ closePending' = [closePending EXCEPT ![j] = TRUE]
  /\ UNCHANGED <<burnInput, fs, db, pc, failedAt, err, ext, tempFiles, resp, unlinkTried,
                 unlinkFailed, burnRead, streamVars, formatVars, filterVars>>

(***************************************************************************)
(* 'error' of the burn process (it could not be spawned), lines 268-273.   *)
(* Node emits 'close' after it.                                            *)
(***************************************************************************)
BurnError(j) ==
  /\ pc[j] = "burning"
  /\ "burn" \in running[j]
  /\ burnRead[j] = 0
  /\ fs' = RmTempDir(fs, j)
  /\ Exited(j, "burn", "error")
  /\ Throw(j, "burnerror", "Burning subtitles failed")
  /\ closePending' = [closePending EXCEPT ![j] = TRUE]
  /\ UNCHANGED <<burnInput, db, ext, tempFiles, resp, unlinkTried, unlinkFailed, burnRead,
                 streamVars, formatVars, filterVars>>

\* the 'close' that follows a spawn 'error': lines 276-286 run, the reject of
\* line 291 has no effect on the settled promise
CloseAfterError(j) ==
  /\ closePending[j]
  /\ fs' = CloseCleanup(fs, j)
  /\ closePending' = [closePending EXCEPT ![j] = FALSE]
  /\ UNCHANGED <<burnInput, db, pc, ext, tempFiles, running, log, failedAt, err, resp,
                 unlinkTried, unlinkFailed, burnRead,
                 streamVars, formatVars, filterVars>>

(***************************************************************************)
(* Handler, lines 192-212: readFile(srtPath) returns, the Video document   *)
(* is built and save() is called.                                          *)
(***************************************************************************)
NewVideo(j, subtitleText) ==
  [id |-> j, videoUrl |-> outputVideoPath(j), subtitle |-> subtitleText]

ReadSrtDone(j) ==
  /\ pc[j] = "readsrt"
  /\ IF Exists(fs, outputFile(j))
       THEN Goto(j, "saving")
       ELSE Throw(j, "readsrt", "Burning subtitles failed")
  /\ UNCHANGED <<burnInput, fs, db, ext, tempFiles, running, log, resp, unlinkTried, unlinkFailed,
                 burnRead, closePending,
                 streamVars, formatVars, filterVars>>

\* save() settles; on success the handler calls cleanupFiles (line 215)
SaveDone(j, ok) ==
  /\ pc[j] = "saving"
  /\ IF ok
       THEN /\ db' = db \cup {NewVideo(j, fs[outputFile(j)].text)}
            /\ Goto(j, "cleanup")
       ELSE /\ Throw(j, "save", "Burning subtitles failed")
            /\ UNCHANGED db
  /\ UNCHANGED <<burnInput, fs, ext, tempFiles, running, log, resp, unlinkTried, unlinkFailed,
                 burnRead, closePending,
                 streamVars, formatVars, filterVars>>

(***************************************************************************)
(* cleanupFiles, lines 102-108: one unlink per entry; a failing unlink is  *)
(* swallowed.  failing is the set of paths whose unlink fails.             *)
(***************************************************************************)
CleanupTargetsFirstOnly(j) == IF tempFiles[j] = <<>> THEN {} ELSE {tempFiles[j][1]}

CleanupTargets(j) == Range(tempFiles[j])

\* the unlinks that fail in one call of cleanupFiles
FailingSets(files) == {ps \in SUBSET files : Cardinality(ps) <= MaxFailing}

\* lines 221-232 after a successful run, lines 240-243 in the catch
ResponseStatus(j) == IF err[j] = "none" THEN 201 ELSE 500

CleanupOutcomeRethrows(j, failing) == IF failing = {} THEN err[j] ELSE "Cleanup error"

\* lines 102-108: the error the handler holds once cleanupFiles has returned.
\* Each unlink's rejection is swallowed by its own .catch(() => {}), so
\* Promise.all never rejects and the error is the one held before the call.
CleanupOutcome(j, failing) == err[j]

CleanupFilesOnSuccessOnly(j, failing) ==
  /\ pc[j] = "cleanup"
  /\ LET targets == IF err[j] = "none" THEN CleanupTargets(j) ELSE {}
     IN  /\ fs' = UnlinkAll(fs, targets \ failing)
         /\ unlinkTried' = [unlinkTried EXCEPT ![j] = @ \cup targets]
         /\ unlinkFailed' = [unlinkFailed EXCEPT ![j] = @ \cup (targets \cap failing)]
  /\ err' = [err EXCEPT ![j] = CleanupOutcome(j, failing)]
  /\ resp' = [resp EXCEPT ![j] = Append(@, ResponseStatus(j)')]
  /\ pc' = [pc EXCEPT ![j] = "done"]
  /\ UNCHANGED failedAt
  /\ UNCHANGED <<burnInput, db, ext, tempFiles, running, log, burnRead, closePending,
                 streamVars, formatVars, filterVars>>

\* await cleanupFiles(tempFiles), then the response (lines 215-232, 239-243)
CleanupFiles(j, failing) ==
  /\ pc[j] = "cleanup"
  /\ fs' = UnlinkAll(fs, CleanupTargets(j) \ failing)
  /\ unlinkTried' = [unlinkTried EXCEPT ![j] = @ \cup CleanupTargets(j)]
  /\ unlinkFailed' = [unlinkFailed EXCEPT ![j] = @ \cup (CleanupTargets(j) \cap failing)]
  /\ err' = [err EXCEPT ![j] = CleanupOutcome(j, failing)]
  /\ resp' = [resp EXCEPT ![j] = Append(@, ResponseStatus(j)')]
  /\ pc' = [pc EXCEPT ![j] = "done"]
  /\ UNCHANGED failedAt
  /\ UNCHANGED <<burnInput, db, ext, tempFiles, running, log, burnRead, closePending,
                 streamVars, formatVars, filterVars>>

\* one step of the handler of job j or of one of its processes
JobNext(j) ==
  \/ /\ pc[j] = "idle"
     /\ \E hasVideo \in BOOLEAN, e \in {".mp4", ".webm"} : Upload(j, hasVideo, e)
  \/ /\ pc[j] = "extracting"
     /\ \E ok \in BOOLEAN, partial \in BOOLEAN : ExtractExit(j, ok, partial)
  \/ /\ pc[j] = "converting"
     /\ \E ok \in BOOLEAN, partial \in BOOLEAN : ConvertExit(j, ok, partial)
  \/ /\ pc[j] = "whisper"
     /\ \E code \in {0, 1}, out \in WhisperOutputs(j), stdout \in {<<>>, <<"a">>},
           renameFails \in BOOLEAN, copyFails \in BOOLEAN :
          WhisperExit(j, code, out, stdout, renameFails, copyFails)
  \/ /\ pc[j] = "webmconv"
     /\ \E ok \in BOOLEAN, partial \in BOOLEAN, copyFails \in BOOLEAN :
          WebmConvExit(j, ok, partial, copyFails)
  \/ BurnReadSubs(j)
  \/ /\ pc[j] = "burning"
     /\ \E code \in {0, 1}, outSize \in {-1, 0, 1} : BurnExit(j, code, outSize)
  \/ BurnError(j)
  \/ CloseAfterError(j)
  \/ ReadSrtDone(j)
  \/ \E ok \in BOOLEAN : SaveDone(j, ok)
  \/ /\ pc[j] = "cleanup"
     /\ \E failing \in FailingSets(Range(tempFiles[j])) : CleanupFiles(j, failing)

PipelineNext == \E j \in Jobs : JobNext(j)

(***************************************************************************)
(* GET /stream/:videoId.  A range header is a string; it is written here   *)
(* as a sequence of tokens: "bytes=" (the unit prefix), decimal digits,    *)
(* "-" and "x" (any other character).                                      *)
(***************************************************************************)
Digits == <<"0", "1", "2">>
Tokens == {"bytes=", "-", "x"} \cup Range(Digits)
Headers == UNION {[1 .. n -> Tokens] : n \in 0 .. MaxHdrLen}
\* req.headers.range of a request without the header
NoHeader == <<"undefined">>

NaN == -1

DigitValue(t) == (CHOOSE i \in DOMAIN Digits : Digits[i] = t) - 1

IndexOf(s, t) ==
  LET at == {i \in DOMAIN s : s[i] = t}
  IN  IF at = {} THEN 0 ELSE CHOOSE i \in at : \A k \in at : i <= k

\* String.prototype.replace(/bytes=/, ""): the first match is removed
ReplaceBytes(s) ==
  LET i == IndexOf(s, "bytes=")
  IN  IF i = 0 THEN s ELSE SubSeq(s, 1, i - 1) \o SubSeq(s, i + 1, Len(s))

\* String.prototype.split("-")
RECURSIVE SplitDash(_)
SplitDash(s) ==
  LET i == IndexOf(s, "-")
  IN  IF i = 0 THEN <<s>>
      ELSE <<SubSeq(s, 1, i - 1)>> \o SplitDash(SubSeq(s, i + 1, Len(s)))

\* parseInt(s, 10): the value of the leading run of digits, NaN without one
RECURSIVE ParseDigits(_, _)
ParseDigits(s, acc) ==
  IF s = <<>> \/ Head(s) \notin Range(Digits) THEN acc
  ELSE ParseDigits(Tail(s), 10 * acc + DigitValue(Head(s)))

parseInt(s) ==
  IF s = <<>> \/ Head(s) \notin Range(Digits) THEN NaN ELSE ParseDigits(s, 0)

HasRangeAlways(h) == TRUE

\* if (range): undefined and the empty string are falsy
HasRange(h) == h # NoHeader /\ h # <<>>

\* lines 301-304
RangeParts(h) == SplitDash(ReplaceBytes(h))
RangeStart(h) == parseInt(RangeParts(h)[1])
RangeEnd(h, fileSize) ==
  IF Len(RangeParts(h)) >= 2 /\ RangeParts(h)[2] # <<>>
    THEN parseInt(RangeParts(h)[2])
    ELSE fileSize - 1
chunkSizeOffByOne(start, end) ==
  IF start = NaN \/ end = NaN THEN NaN ELSE end - start

chunkSize(start, end) ==
  IF start = NaN \/ end = NaN THEN NaN ELSE (end - start) + 1

\* fs.createReadStream(videoPath, {start, end}) validates its options: both
\* are integers >= 0 and start <= end, or it throws
ReadStreamThrows(start, end) == start = NaN \/ end = NaN \/ end < 0 \/ start > end

\* the bytes of a file of n bytes
Content(n) == [i \in 1 .. n |-> i]

\* the bytes a read stream with {start, end} delivers from a file of n bytes
ReadBytes(n, start, end) ==
  LET last == IF end + 1 < n THEN end + 1 ELSE n
  IN  IF start + 1 > last THEN <<>> ELSE SubSeq(Content(n), start + 1, last)

RecordAssumed(vid) == {[id |-> vid, videoUrl |-> outputVideoPath(vid), subtitle |-> 0]}

\* line 280: Video.findById
Record(vid) == {v \in db : v.id = vid}
ArtifactOf(vid) == (CHOOSE v \in Record(vid) : TRUE).videoUrl

Reply(status) == [NoResponse EXCEPT !.status = status]

\* A request arrives; the handler awaits Video.findById (line 280).
StreamRequest(vid, h) ==
  /\ sreq.pc = "none"
  /\ sreq' = [NoRequest EXCEPT !.pc = "find", !.vid = vid, !.hdr = h]
  /\ UNCHANGED <<fs, db, jobVars, sresp, formatVars, filterVars>>

\* lines 281-293: the document, then fs.existsSync on its file
StreamFind ==
  /\ sreq.pc = "find"
  /\ IF Record(sreq.vid) = {} \/ ~Exists(fs, ArtifactOf(sreq.vid))
       THEN /\ sresp' = Reply(404)
            /\ sreq' = [sreq EXCEPT !.pc = "done", !.gone = TRUE]
       ELSE /\ sreq' = [sreq EXCEPT !.pc = "stat"]
            /\ UNCHANGED sresp
  /\ UNCHANGED <<fs, db, jobVars, formatVars, filterVars>>

\* lines 295-296: fs.statSync; it throws when the file is gone, and the catch
\* of lines 323-326 answers 500
StreamStat ==
  /\ sreq.pc = "stat"
  /\ IF ~Exists(fs, ArtifactOf(sreq.vid))
       THEN /\ sresp' = Reply(500)
            /\ sreq' = [sreq EXCEPT !.pc = "done", !.gone = TRUE]
       ELSE /\ sreq' = [sreq EXCEPT !.pc = "send", !.size = fs[ArtifactOf(sreq.vid)].size]
            /\ UNCHANGED sresp
  /\ UNCHANGED <<fs, db, jobVars, formatVars, filterVars>>

\* lines 297-322: the read stream is created and the head is written
StreamSend ==
  /\ sreq.pc = "send"
  /\ LET fileSize == sreq.size
         start == RangeStart(sreq.hdr)
         end == RangeEnd(sreq.hdr, fileSize)
     IN  IF HasRange(sreq.hdr)
           THEN IF ReadStreamThrows(start, end)
                  THEN /\ sresp' = Reply(500)
                       /\ sreq' = [sreq EXCEPT !.pc = "done"]
                  ELSE /\ sresp' = [NoResponse EXCEPT
                                      !.status = 206,
                                      !.contentRange = <<start, end, fileSize>>,
                                      !.acceptRanges = TRUE,
                                      !.contentLength = chunkSize(start, end)]
                       /\ sreq' = [sreq EXCEPT !.pc = "pipe", !.start = start, !.end = end]
           ELSE /\ sresp' = [NoResponse EXCEPT !.status = 200, !.contentLength = fileSize]
                /\ sreq' = [sreq EXCEPT !.pc = "pipe", !.start = 0, !.end = fileSize - 1]
  /\ UNCHANGED <<fs, db, jobVars, formatVars, filterVars>>

\* file.pipe(res): the stream opens the file and its bytes go out; when the
\* file is gone the stream fails and no byte is sent
StreamPipe ==
  /\ sreq.pc = "pipe"
  /\ sresp' = [sresp EXCEPT
                 !.piped = Exists(fs, ArtifactOf(sreq.vid)),
                 !.body = IF Exists(fs, ArtifactOf(sreq.vid))
                            THEN ReadBytes(fs[ArtifactOf(sreq.vid)].size, sreq.start, sreq.end)
                            ELSE <<>>]
  /\ sreq' = [sreq EXCEPT !.pc = "done", !.gone = ~Exists(fs, ArtifactOf(sreq.vid))]
  /\ UNCHANGED <<fs, db, jobVars, formatVars, filterVars>>

\* Someone outside the server removes a finished video from the disk: the
\* case the checks of lines 257 and 291 are there for.
RemoveArtifact(v) ==
  /\ Exists(fs, v.videoUrl)
  /\ fs' = Unlink(fs, v.videoUrl)
  /\ UNCHANGED <<db, jobVars, streamVars, formatVars, filterVars>>

StreamNext ==
  \/ /\ sreq.pc = "none"
     /\ \E vid \in Jobs, h \in Headers \cup {NoHeader} : StreamRequest(vid, h)
  \/ StreamFind
  \/ StreamStat
  \/ StreamSend
  \/ StreamPipe
  \/ \E v \in db : RemoveArtifact(v)

\* The state after job 1 has been answered 201: its burned video, of some
\* size, is on disk and its document is saved.
InitStream ==
  /\ \E n \in 1 .. MaxSize :
       fs = [p \in Paths |-> IF p = outputVideoPath(1) THEN File(n, 1) ELSE NoFile]
  /\ db = {NewVideo(1, 1)}
  /\ pc = [j \in Jobs |-> IF j = 1 THEN "done" ELSE "idle"]
  /\ ext = [j \in Jobs |-> ".mp4"]
  /\ tempFiles = [j \in Jobs |-> IF j = 1 THEN <<videoPath(1), audioPath(1), outputFile(1)>>
                                 ELSE <<>>]
  /\ running = [j \in Jobs |-> {}]
  /\ log = [j \in Jobs |-> IF j = 1
              THEN <<<<"start", "extract">>, <<"ok", "extract">>, <<"start", "convert">>,
                     <<"ok", "convert">>, <<"start", "whisper">>, <<"ok", "whisper">>,
                     <<"start", "burn">>, <<"ok", "burn">>>>
              ELSE <<>>]
  /\ failedAt = [j \in Jobs |-> "none"]
  /\ err = [j \in Jobs |-> "none"]
  /\ resp = [j \in Jobs |-> IF j = 1 THEN <<201>> ELSE <<>>]
  /\ unlinkTried = [j \in Jobs |-> IF j = 1 THEN {videoPath(1), audioPath(1), outputFile(1)}
                                   ELSE {}]
  /\ unlinkFailed = [j \in Jobs |-> {}]
  /\ burnRead = [j \in Jobs |-> 0]
  /\ burnInput = [j \in Jobs |-> IF j = 1 THEN videoPath(1) ELSE NoPath]
  /\ closePending = [j \in Jobs |-> FALSE]
  /\ sreq = NoRequest
  /\ sresp = NoResponse
  /\ stdoutText = <<>>
  /\ srtContent = NoContent
  /\ srtPathText = <<>>
  /\ filterText = NoContent

Next == PipelineNext

Spec == Init /\ [][Next]_vars

StreamSpec == InitStream /\ [][StreamNext]_vars

(***************************************************************************)
(* The three stage functions called on their own, on any disk: the caller  *)
(* is job StageJob.  A stage that rejects at once leaves the job at        *)
(* "rejected"; otherwise the job waits for the process the stage started.  *)
(* A job that starts at "whisper" is the handler waiting for the whisper   *)
(* command, whose files are already on the disk.                           *)
(***************************************************************************)
StageJob == 1

Rejected(j, where, msg) ==
  /\ pc' = [pc EXCEPT ![j] = "rejected"]
  /\ failedAt' = [failedAt EXCEPT ![j] = where]
  /\ err' = [err EXCEPT ![j] = msg]

\* the process q is spawned by a stage of job j
Spawned(j, q) ==
  /\ running' = [running EXCEPT ![j] = @ \cup {q}]
  /\ log' = [log EXCEPT ![j] = Append(@, <<"start", q>>)]

\* extractAudioFromVideo(videoPath, audioDir), up to the start of ffmpeg
CallExtractor(j) ==
  /\ pc[j] = "idle"
  /\ LET x == ExtractStart(fs, j) IN
       /\ fs' = x.fs
       /\ IF x.threw = "none"
            THEN Spawned(j, x.spawned) /\ Goto(j, "extracting")
            ELSE Rejected(j, x.threw, "Video file not found") /\ UNCHANGED <<running, log>>
  /\ UNCHANGED <<burnInput, db, ext, tempFiles, resp, unlinkTried, unlinkFailed, burnRead,
                 closePending, streamVars, formatVars, filterVars>>

\* transcribeWithWhisper(audioPath, subtitleDir), up to its first exec
CallTranscriber(j) ==
  /\ pc[j] = "idle"
  /\ LET x == TranscribeStart(fs, j) IN
       /\ fs' = x.fs
       /\ IF x.threw = "none"
            THEN Spawned(j, x.spawned) /\ Goto(j, "converting")
            ELSE Rejected(j, x.threw, "Audio file not found") /\ UNCHANGED <<running, log>>
  /\ UNCHANGED <<burnInput, db, ext, tempFiles, resp, unlinkTried, unlinkFailed, burnRead,
                 closePending, streamVars, formatVars, filterVars>>

\* burnSubtitlesIntoVideo(videoPath, srtPath, outputDir), up to the first
\* process it spawns
CallBurner(j, copyFails) ==
  /\ pc[j] = "idle"
  /\ LET b == BurnStart(fs, j, copyFails) IN
       /\ fs' = b.fs
       /\ burnInput' = [burnInput EXCEPT ![j] = b.input]
       /\ IF b.threw = "none"
            THEN /\ Spawned(j, b.spawned)
                 /\ Goto(j, IF b.spawned = "burn" THEN "burning" ELSE "webmconv")
            ELSE /\ Rejected(j, b.threw,
                             IF b.threw = "copy" THEN "copyFileSync failed"
                             ELSE IF ~Exists(fs, videoPath(j)) THEN "Video file not found"
                             ELSE "Subtitle file not found")
                 /\ UNCHANGED <<running, log>>
  /\ UNCHANGED <<db, ext, tempFiles, resp, unlinkTried, unlinkFailed, burnRead,
                 closePending, streamVars, formatVars, filterVars>>

\* whisper has exited with code 0 and its files are on the disk: the rest of
\* the transcriber and the handler's continuation
WhisperDone(j, stdout, renameFails, copyFails) ==
  WhisperExit(j, 0, [name |-> NoPath, size |-> 0], stdout, renameFails, copyFails)

StageNext ==
  \/ CallExtractor(StageJob)
  \/ CallTranscriber(StageJob)
  \/ \E copyFails \in BOOLEAN : CallBurner(StageJob, copyFails)
  \/ /\ pc[StageJob] = "whisper"
     /\ \E stdout \in {<<>>, <<"a">>}, renameFails \in BOOLEAN, copyFails \in BOOLEAN :
          WhisperDone(StageJob, stdout, renameFails, copyFails)

\* a disk holding the given files of job StageJob and nothing else
StageDisk(v, a, t, e, c, o, d) ==
  [p \in Paths |->
     IF p = videoPath(StageJob) THEN v
     ELSE IF p = audioPath(StageJob) THEN a
     ELSE IF p = tempAudioPath(StageJob) THEN t
     ELSE IF p = candEnSrt(StageJob) THEN e
     ELSE IF p = candSrt(StageJob) THEN c
     ELSE IF p = outputFile(StageJob) THEN o
     ELSE IF p = tempDir(StageJob) THEN d
     ELSE NoFile]

\* Any combination of the job's input files exists; the two candidate names
\* hold different subtitles (1 and 2 bytes) or an empty file.
InitStages ==
  /\ \E v \in {NoFile, File(1, StageJob)}, a \in {NoFile, File(1, StageJob)},
        t \in {NoFile, File(1, StageJob)},
        e \in {NoFile, File(0, StageJob), File(1, StageJob)},
        c \in {NoFile, File(0, StageJob), File(2, StageJob)},
        o \in {NoFile, File(1, StageJob)}, d \in {NoFile, File(0, 0)} :
       fs = StageDisk(v, a, t, e, c, o, d)
  /\ db = {}
  /\ \E at \in {"idle", "whisper"} :
       /\ pc = [j \in Jobs |-> IF j = StageJob THEN at ELSE "idle"]
       /\ tempFiles = [j \in Jobs |-> IF j = StageJob /\ at = "whisper"
                                        THEN <<videoPath(j), audioPath(j)>> ELSE <<>>]
       /\ running = [j \in Jobs |-> IF j = StageJob /\ at = "whisper"
                                      THEN {"whisper"} ELSE {}]
       /\ log = [j \in Jobs |-> IF j = StageJob /\ at = "whisper"
                   THEN <<<<"start", "extract">>, <<"ok", "extract">>, <<"start", "convert">>,
                          <<"ok", "convert">>, <<"start", "whisper">>>>
                   ELSE <<>>]
  /\ ext \in [Jobs -> {".mp4", ".webm"}]
  /\ \A j \in Jobs \ {StageJob} : ext[j] = ".mp4"
  /\ failedAt = [j \in Jobs |-> "none"]
  /\ err = [j \in Jobs |-> "none"]
  /\ resp = [j \in Jobs |-> <<>>]
  /\ unlinkTried = [j \in Jobs |-> {}]
  /\ unlinkFailed = [j \in Jobs |-> {}]
  /\ burnRead = [j \in Jobs |-> 0]
  /\ burnInput = [j \in Jobs |-> NoPath]
  /\ closePending = [j \in Jobs |-> FALSE]
  /\ sreq = NoRequest
  /\ sresp = NoResponse
  /\ stdoutText = <<>>
  /\ srtContent = NoContent
  /\ srtPathText = <<>>
  /\ filterText = NoContent

StageSpec == InitStages /\ [][StageNext]_vars

(***************************************************************************)
(* formatTranscriptionToSRT applied to a captured stdout.  The transcriber *)
(* calls it only for a non-empty stdout (line 113).                        *)
(***************************************************************************)
Format ==
  /\ srtContent = NoContent
  /\ stdoutText # <<>>
  /\ srtContent' = formatTranscriptionToSRT(stdoutText)
  /\ UNCHANGED <<fs, db, jobVars, streamVars, stdoutText, filterVars>>

FormatNext == Format

InitFormat ==
  /\ fs = [p \in Paths |-> NoFile]
  /\ db = {}
  /\ pc = [j \in Jobs |-> "idle"]
  /\ ext = [j \in Jobs |-> ".mp4"]
  /\ tempFiles = [j \in Jobs |-> <<>>]
  /\ running = [j \in Jobs |-> {}]
  /\ log = [j \in Jobs |-> <<>>]
  /\ failedAt = [j \in Jobs |-> "none"]
  /\ err = [j \in Jobs |-> "none"]
  /\ resp = [j \in Jobs |-> <<>>]
  /\ unlinkTried = [j \in Jobs |-> {}]
  /\ unlinkFailed = [j \in Jobs |-> {}]
  /\ burnRead = [j \in Jobs |-> 0]
  /\ burnInput = [j \in Jobs |-> NoPath]
  /\ closePending = [j \in Jobs |-> FALSE]
  /\ sreq = NoRequest
  /\ sresp = NoResponse
  /\ stdoutText \in Stdouts
  /\ srtContent = NoContent
  /\ srtPathText = <<>>
  /\ filterText = NoContent

FormatSpec == InitFormat /\ [][FormatNext]_vars

(***************************************************************************)
(* The subtitles filter of the burn process, lines 227-238.  A path is a   *)
(* sequence of characters; "temp" and "temp.srt" stand for the letters of  *)
(* those names.                                                            *)
(***************************************************************************)
PathChars == {"a", "/", "\\", ":", "'"}
Dirs == UNION {[1 .. n -> PathChars] : n \in 0 .. MaxDirLen}

\* path.join(path.join(outputDir, 'temp'), 'temp.srt') with the separator
\* of the platform; outputDir is taken as path.join leaves it (normalized)
JoinTempSrt(outputDir, sep) == outputDir \o <<sep, "temp", sep, "temp.srt">>

\* String.prototype.replace with a global one-character pattern
RECURSIVE ReplaceAll(_, _, _)
ReplaceAll(s, c, by) ==
  IF s = <<>> THEN <<>>
  ELSE (IF Head(s) = c THEN by ELSE <<Head(s)>>) \o ReplaceAll(Tail(s), c, by)

\* line 235
NormalizeSeparators(path) == ReplaceAll(path, "\\", <<"/">>)

\* line 238: .replace(/:/g, '\\:').replace(/'/g, "\\'")
EscapeForFilter(path) ==
  ReplaceAll(ReplaceAll(path, ":", <<"\\", ":">>), "'", <<"\\", "'">>)

ForceStyle ==
  ":force_style=FontName=Arial,FontSize=24,PrimaryColour=&HFFFFFF&,OutlineColour=&H000000&,Outline=2,BorderStyle=3"

BuildSubtitleFilterEscapeFirst(path) ==
  <<"subtitles=", "'">> \o NormalizeSeparators(EscapeForFilter(path)) \o <<ForceStyle, "'">>

\* lines 235-238: the -vf argument for the subtitle file at path
BuildSubtitleFilter(path) ==
  <<"subtitles=", "'">> \o EscapeForFilter(NormalizeSeparators(path)) \o <<ForceStyle, "'">>

BuildFilter ==
  /\ filterText = NoContent
  /\ filterText' = BuildSubtitleFilter(srtPathText)
  /\ UNCHANGED <<fs, db, jobVars, streamVars, formatVars, srtPathText>>

FilterNext == BuildFilter

InitFilter ==
  /\ fs = [p \in Paths |-> NoFile]
  /\ db = {}
  /\ pc = [j \in Jobs |-> "idle"]
  /\ ext = [j \in Jobs |-> ".mp4"]
  /\ tempFiles = [j \in Jobs |-> <<>>]
  /\ running = [j \in Jobs |-> {}]
  /\ log = [j \in Jobs |-> <<>>]
  /\ failedAt = [j \in Jobs |-> "none"]
  /\ err = [j \in Jobs |-> "none"]
  /\ resp = [j \in Jobs |-> <<>>]
  /\ unlinkTried = [j \in Jobs |-> {}]
  /\ unlinkFailed = [j \in Jobs |-> {}]
  /\ burnRead = [j \in Jobs |-> 0]
  /\ burnInput = [j \in Jobs |-> NoPath]
  /\ closePending = [j \in Jobs |-> FALSE]
  /\ sreq = NoRequest
  /\ sresp = NoResponse
  /\ stdoutText = <<>>
  /\ srtContent = NoContent
  /\ \E outputDir \in Dirs, sep \in {"/", "\\"} : srtPathText = JoinTempSrt(outputDir, sep)
  /\ filterText = NoContent

FilterSpec == InitFilter /\ [][FilterNext]_vars

(***************************************************************************)
(* Scheduling.  The handler of an accepted request is suspended only on a  *)
(* promise that a process's exit or a file or database operation settles;  *)
(* Node's event loop runs every continuation that is ready, and every      *)
(* process that was started exits or reports that it could not start.  So  *)
(* a job that has left "idle" keeps taking steps while it has one; the     *)
(* arrival of a request (Upload) is under no such assumption.  FairSpec is *)
(* the upload of job StageJob under this scheduling.                       *)
(***************************************************************************)
JobProgress(j) == pc[j] # "idle" /\ JobNext(j)

FairNext == JobNext(StageJob)

FairSpec == Init /\ [][FairNext]_vars /\ WF_vars(JobProgress(StageJob))

(***************************************************************************)
(* The upload of job StageJob and one stream request side by side: the     *)
(* request may arrive at any moment of the upload.                         *)
(***************************************************************************)
ServeHeaders == {NoHeader, <<"bytes=", "0", "-">>}

ServeNext ==
  \/ JobNext(StageJob)
  \/ /\ sreq.pc = "none"
     /\ \E vid \in Jobs, h \in ServeHeaders : StreamRequest(vid, h)
  \/ StreamFind
  \/ StreamStat
  \/ StreamSend
  \/ StreamPipe

ServeSpec == Init /\ [][ServeNext]_vars

(***************************************************************************)
(* Properties of the upload pipeline.                                      *)
(***************************************************************************)
\* the handler of job j has sent its failure response
Failed(j) == pc[j] = "done" /\ resp[j] = <<500>>

\* the handler of job j has sent its 201 response
Succeeded(j) == pc[j] = "done" /\ resp[j] = <<201>>

\* the stage a failure point belongs to (4: after the three stages)
FailStage(j) ==
  IF failedAt[j] \in {"extractInput", "extraction"} THEN 1
  ELSE IF failedAt[j] \in {"transcribeInput", "tempwav", "whisper", "nooutput", "rename",
                           "finalmissing", "srtcheck"} THEN 2
  ELSE IF failedAt[j] \in {"burnInput", "webmconv", "copy", "burnerror", "burnexit",
                           "outmissing", "outsize"} THEN 3
  ELSE 4

\* the transient artifacts the stages before the failing one produced
PriorArtifacts(j) ==
  IF FailStage(j) = 1 THEN {}
  ELSE IF FailStage(j) = 2 THEN {audioPath(j)}
  ELSE {audioPath(j), outputFile(j)}

\* C1 as stated: after the failure response of a run that failed at stage N,
\* no artifact of the stages 1..N-1 (the WAV, the SRT) exists on disk.
C1_PriorArtifactsGone ==
  \A j \in Jobs : Failed(j) => \A p \in PriorArtifacts(j) : ~Exists(fs, p)

\* C1 amended: after the failure response of a run that failed at stage N,
\* cleanupFiles has tried to unlink every artifact of the stages 1..N-1, and
\* such an artifact exists on disk only if its unlink failed.
C1_PriorArtifactsUnlinked ==
  \A j \in Jobs : Failed(j) =>
    \A p \in PriorArtifacts(j) :
      p \in unlinkTried[j] /\ (Exists(fs, p) => p \in unlinkFailed[j])

\* a run failed in the burn stage and its WAV and SRT are gone
C1_Witness ==
  \E j \in Jobs :
    /\ Failed(j) /\ FailStage(j) = 3
    /\ ~Exists(fs, audioPath(j)) /\ ~Exists(fs, outputFile(j))

\* C2, for the runs in which no unlink of cleanupFiles failed: after a job
\* ended in failure, of its files at most the original upload is on disk: no
\* WAV, temp WAV, SRT, whisper output, copied subtitles, intermediate MP4 or
\* burned video of the job.
C2_FailedJobLeavesOnlyUpload ==
  \A j \in Jobs : (Failed(j) /\ unlinkFailed[j] = {}) =>
    /\ \A p \in JobPaths(j) \ {videoPath(j)} : ~Exists(fs, p)
    /\ ~(Exists(fs, tempSrtPath(j)) /\ fs[tempSrtPath(j)].text = j)

\* C3, for the runs in which no unlink of cleanupFiles failed: after a 201
\* response the burned video exists with size > 0 and no other file of the
\* job is on disk.
C3_SuccessLeavesOnlyFinalVideo ==
  \A j \in Jobs : (Succeeded(j) /\ unlinkFailed[j] = {}) =>
    /\ Exists(fs, outputVideoPath(j)) /\ fs[outputVideoPath(j)].size > 0
    /\ \A p \in JobPaths(j) \ {outputVideoPath(j)} : ~Exists(fs, p)

\* C4: the subtitle file of a job's burn process holds that job's subtitles
\* from the start of the process until the process has loaded it, and what
\* the process loads is the job's own subtitles.
C4_BurnReadsOwnSubtitles ==
  \A j \in Jobs :
    /\ burnRead[j] \in {0, j}
    /\ ("burn" \in running[j] /\ burnRead[j] = 0) =>
         (Exists(fs, tempSrtPath(j)) /\ fs[tempSrtPath(j)].text = j)

Started(j, p) == p \in running'[j] \ running[j]

\* C9: a transcription process starts only after the extraction has ended
\* successfully and with the WAV on disk; the conversion or burn process
\* starts only after whisper has ended successfully and with a non-empty SRT
\* on disk; a job never has two processes running.
C9_StagesInOrder ==
  [][\A j \in Jobs :
       /\ (Started(j, "convert") \/ Started(j, "whisper")) =>
            (<<"ok", "extract">> \in Range(log'[j]) /\ Exists(fs', audioPath(j)))
       /\ (Started(j, "webmconv") \/ Started(j, "burn")) =>
            /\ <<"ok", "whisper">> \in Range(log'[j])
            /\ Exists(fs', outputFile(j)) /\ fs'[outputFile(j)].size > 0
       /\ Cardinality(running'[j]) <= 1]_vars

\* a burn process is running after the extraction and whisper have ended
C9_Witness ==
  \E j \in Jobs :
    /\ "burn" \in running[j]
    /\ <<"ok", "extract">> \in Range(log[j]) /\ <<"ok", "whisper">> \in Range(log[j])

\* C10: once the transcriber has returned or thrown, a temp WAV that it
\* created no longer exists.
C10_TempWavGoneAfterTranscriber ==
  \A j \in Jobs :
    (<<"ok", "convert">> \in Range(log[j]) /\ pc[j] # "whisper") =>
      ~Exists(fs, tempAudioPath(j))

(***************************************************************************)
(* Properties of the stream endpoint.                                      *)
(***************************************************************************)
\* the handler has read the size of the artifact and has answered
Answered == sreq.pc \in {"pipe", "done"} /\ sreq.size > 0 /\ sresp.status # 0

\* the header "bytes=<start>-<end>" and the header "bytes=<start>-"
MkRange(start, end) == <<"bytes=", Digits[start + 1], "-", Digits[end + 1]>>
MkOpenRange(start) == <<"bytes=", Digits[start + 1], "-">>

\* the requested range, when the header is well formed and within the size
ValidRanges(h, size) ==
  {r \in (0 .. Len(Digits) - 1) \X (0 .. Len(Digits) - 1) :
     /\ r[1] <= r[2] /\ r[2] < size
     /\ h = MkRange(r[1], r[2]) \/ (r[2] = size - 1 /\ h = MkOpenRange(r[1]))}

\* C5: a request with a non-empty range header that is malformed or out of
\* bounds is answered 416, never 206.
C5_BadRangeNotSatisfiable ==
  (Answered /\ sreq.hdr \notin {NoHeader, <<>>} /\ ValidRanges(sreq.hdr, sreq.size) = {}) =>
    sresp.status = 416

\* C6: a request with a valid range start-end on an artifact of size S is
\* answered 206 with Content-Range start-end/S, Accept-Ranges, Content-Length
\* end-start+1, and the body is the end-start+1 bytes from offset start.
C6_ValidRangePartialContent ==
  \A r \in ValidRanges(sreq.hdr, sreq.size) :
    Answered =>
      /\ sresp.status = 206
      /\ sresp.contentRange = <<r[1], r[2], sreq.size>>
      /\ sresp.acceptRanges
      /\ sresp.contentLength = r[2] - r[1] + 1
      /\ sresp.piped =>
           sresp.body = [k \in 1 .. (r[2] - r[1] + 1) |-> Content(sreq.size)[r[1] + k]]

\* bytes=1-2 has been served from an artifact of 3 bytes
C6_Witness ==
  /\ sreq.pc = "done" /\ sreq.hdr = MkRange(1, 2) /\ sreq.size = 3
  /\ sresp.status = 206 /\ sresp.piped /\ Len(sresp.body) = 2

\* C7: a request without a range header is answered 200 with Content-Length
\* S and the whole artifact as body; it never gets 206 or a Content-Range.
C7_NoRangeFullContent ==
  sreq.hdr = NoHeader =>
    /\ sresp.status # 206 /\ sresp.contentRange = <<>>
    /\ Answered =>
         /\ sresp.status = 200
         /\ sresp.contentLength = sreq.size
         /\ sresp.piped => sresp.body = Content(sreq.size)

\* a request without range header has been served in full
C7_Witness ==
  /\ sreq.pc = "done" /\ sreq.hdr = NoHeader
  /\ sresp.status = 200 /\ sresp.piped /\ Len(sresp.body) = sreq.size

\* C8: a request whose artifact is missing when it is served (no document,
\* or no file at the existence check, the size read or the read of the
\* bytes) is answered not found, never 200 or 206.
C8_MissingArtifactNotFound ==
  sreq.gone => sresp.status = 404

(***************************************************************************)
(* Properties of the burner and of the handler's error reporting.          *)
(***************************************************************************)
\* the burner of job j got past its input validation (lines 165-171)
BurnerPastValidation(j) ==
  \/ <<"start", "webmconv">> \in Range(log[j])
  \/ <<"start", "burn">> \in Range(log[j])
  \/ failedAt[j] = "copy"

\* the promise of the burner of job j has settled
BurnerSettled(j) == BurnerPastValidation(j) /\ pc[j] \notin {"webmconv", "burning"}

\* C11 as stated: once the promise of a burner call that got past input
\* validation has settled, the intermediate MP4 of the job does not exist,
\* and (when no other job's burner has used the shared temp directory)
\* neither does the temp subtitle directory nor the subtitle copy in it.
C11_BurnerLeavesNoTemp ==
  \A j \in Jobs :
    BurnerSettled(j) =>
      /\ ~Exists(fs, mp4Path(j))
      /\ (\A k \in Jobs \ {j} : ~BurnerPastValidation(k)) =>
           (~Exists(fs, tempDir(j)) /\ ~Exists(fs, tempSrtPath(j)))

\* C12: when the cleanup that follows a stage failure has deletions that
\* fail, the handler still answers with the one failure response and still
\* holds the error of the failed stage, the unlink of every entry of
\* tempFiles has been attempted, and every entry whose unlink did not fail
\* is gone.
C12_CleanupFailureKeepsStageError ==
  [][\A j \in Jobs :
       (/\ pc[j] = "cleanup" /\ pc'[j] = "done"
        /\ failedAt[j] # "none"
        /\ unlinkFailed'[j] # {}) =>
         /\ err'[j] = err[j] /\ failedAt'[j] = failedAt[j]
         /\ resp'[j] = <<500>>
         /\ Range(tempFiles[j]) \subseteq unlinkTried'[j]
         /\ \A p \in Range(tempFiles[j]) \ unlinkFailed'[j] : ~Exists(fs', p)]_vars

\* a failed job was answered after a cleanup in which the unlink of one of
\* several accumulated files failed
C12_Witness ==
  \E j \in Jobs :
    /\ Failed(j) /\ failedAt[j] # "none"
    /\ unlinkFailed[j] # {}
    /\ Cardinality(unlinkTried[j]) >= 2

\* the stage an error message of the handler names (0: none)
StageNamed(msg) ==
  IF msg \in {"Audio extraction failed", "Video file not found"} THEN 1
  ELSE IF msg = "Transcription failed" THEN 2
  ELSE IF msg = "Burning subtitles failed" THEN 3
  ELSE 0

\* C13 as stated: a failed job has been answered with exactly one failure,
\* and the error the handler reports names the stage the failure occurred in
\* (extraction, transcription or burn), and names no stage when the failure
\* occurred after the three stages.
C13_ErrorNamesFailedStage ==
  \A j \in Jobs :
    (pc[j] = "done" /\ failedAt[j] # "none") =>
      /\ resp[j] = <<500>>
      /\ StageNamed(err[j]) = IF FailStage(j) = 4 THEN 0 ELSE FailStage(j)

(***************************************************************************)
(* Properties of the stages called on their own.                           *)
(***************************************************************************)
\* the failure points inside transcribeWithWhisper
TranscriberFailures == {"transcribeInput", "tempwav", "whisper", "nooutput", "rename",
                        "finalmissing"}

\* whisper has left at least one file under a probed name
SomeCandidate(j) == \E i \in DOMAIN possibleOutputFiles(j) : Exists(fs, possibleOutputFiles(j)[i])

\* p exists and no name before it in the priority order does
IsFirstCandidate(j, p) ==
  \E i \in DOMAIN possibleOutputFiles(j) :
    /\ possibleOutputFiles(j)[i] = p
    /\ Exists(fs, p)
    /\ \A k \in 1 .. i - 1 : ~Exists(fs, possibleOutputFiles(j)[k])

\* the step in which the transcriber resumes after whisper exited with code 0
WhisperDoneStep(j) ==
  pc[j] = "whisper" /\ pc'[j] # "whisper" /\ <<"ok", "whisper">> \in Range(log'[j])

\* the transcriber has returned; the canonical SRT holds what the first
\* candidate held, that candidate is gone under its own name and the other
\* candidate is untouched
RenamedFirstCandidate(j) ==
  /\ failedAt'[j] \notin TranscriberFailures
  /\ \E p \in Range(possibleOutputFiles(j)) :
       /\ IsFirstCandidate(j, p)
       /\ fs'[outputFile(j)] = fs[p] /\ Exists(fs', outputFile(j))
       /\ ~Exists(fs', p)
       /\ \A q \in Range(possibleOutputFiles(j)) \ {p} : fs'[q] = fs[q]

\* C14 as stated: whenever whisper exits with code 0 and has left at least
\* one candidate file, the transcriber returns, with the canonical SRT
\* holding the content of the first existing candidate of the priority order
\* and that candidate gone under its original name.
C14_FirstCandidateAlwaysReturned ==
  [][\A j \in Jobs :
       (WhisperDoneStep(j) /\ SomeCandidate(j)) => RenamedFirstCandidate(j)]_vars

\* C14: whenever whisper exits with code 0 and has left at least one
\* candidate file, then if the rename of the first existing candidate
\* succeeds the transcriber returns, with the canonical SRT holding that
\* candidate's content and the candidate gone under its original name; if the
\* rename throws, the transcriber fails with a transcription failure and no
\* file has been renamed.
C14_FirstCandidateRenamed ==
  [][\A j \in Jobs :
       (WhisperDoneStep(j) /\ SomeCandidate(j)) =>
         IF failedAt'[j] = "rename"
           THEN /\ err'[j] = "Transcription failed"
                /\ \A q \in Range(possibleOutputFiles(j)) \cup {outputFile(j)} :
                     fs'[q] = fs[q]
           ELSE RenamedFirstCandidate(j)]_vars

\* whisper left both candidates; the transcriber has returned with the
\* content of the .en.srt candidate (1 byte) under the canonical name, and
\* the second candidate (2 bytes) is still under its own name
C14_Witness ==
  \E j \in Jobs :
    /\ <<"ok", "whisper">> \in Range(log[j])
    /\ failedAt[j] \notin TranscriberFailures
    /\ fs[outputFile(j)] = File(1, j)
    /\ ~Exists(fs, candEnSrt(j))
    /\ fs[candSrt(j)] = File(2, j)

\* C15: when whisper exits with code 0 and has left no candidate file, then
\* with a non-empty stdout the transcriber returns and the canonical SRT is
\* the synthesized file; with an empty stdout the transcriber fails with a
\* transcription failure, the canonical SRT is as it was before (none is
\* created) and the temp WAV does not exist.
C15_FallbackOrFailure ==
  [][\A j \in Jobs : pc[j] = "whisper" =>
       \A stdout \in {<<>>, <<"a">>}, renameFails \in BOOLEAN, copyFails \in BOOLEAN :
         (WhisperDone(j, stdout, renameFails, copyFails) /\ ~SomeCandidate(j)) =>
           IF stdout # <<>>
             THEN /\ failedAt'[j] \notin TranscriberFailures
                  /\ fs'[outputFile(j)] = File(Len(SrtHead) + Len(stdout) + 1, j)
             ELSE /\ failedAt'[j] = "nooutput" /\ err'[j] = "Transcription failed"
                  /\ fs'[outputFile(j)] = fs[outputFile(j)]
                  /\ ~Exists(fs', tempAudioPath(j))]_vars

\* the transcriber has returned with the file synthesized from a stdout of
\* one letter under the canonical name
C15_Witness ==
  \E j \in Jobs :
    /\ <<"ok", "whisper">> \in Range(log[j])
    /\ failedAt[j] \notin TranscriberFailures
    /\ fs[outputFile(j)] = File(Len(SrtHead) + 2, j)

\* the transcriber has failed for lack of any output, with no canonical SRT
\* and no temp WAV on the disk
C15_WitnessNoOutput ==
  \E j \in Jobs :
    /\ failedAt[j] = "nooutput"
    /\ ~Exists(fs, outputFile(j)) /\ ~Exists(fs, tempAudioPath(j))

(***************************************************************************)
(* Properties of the external processes of a job.                          *)
(***************************************************************************)
\* the burn process of job j has exited (its 'close' event with a code)
BurnClosed(j) ==
  /\ "burn" \in running[j] \ running'[j]
  /\ log'[j][Len(log'[j])] \in {<<"ok", "burn">>, <<"fail", "burn">>}

Processes == {"extract", "convert", "whisper", "webmconv", "burn"}

\* how often the process p has been started in the history l of a job
Starts(l, p) == Cardinality({i \in DOMAIN l : l[i] = <<"start", p>>})

\* the step appends the start of process p to the history of job j
StartLogged(j, p) ==
  log'[j] # log[j] /\ log'[j][Len(log'[j])] = <<"start", p>>

\* C17: in one job every external process (extraction, temp WAV conversion,
\* whisper, container conversion, burn) is started at most once, and no
\* process is started in or after the step in which the job fails.
C17_NoRetry ==
  [][\A j \in Jobs :
       (log'[j] # log[j] \/ running'[j] # running[j]) =>
         /\ \A p \in Processes :
              (StartLogged(j, p) \/ Started(j, p)) =>
                (Starts(log[j], p) = 0 /\ failedAt'[j] = "none")
         /\ failedAt'[j] # "none" => running'[j] \subseteq running[j]]_vars

\* a job whose whisper command failed has been answered: its extraction,
\* temp WAV conversion and whisper were each started once and nothing else
C17_Witness ==
  \E j \in Jobs :
    /\ Failed(j) /\ failedAt[j] = "whisper"
    /\ Starts(log[j], "extract") = 1 /\ Starts(log[j], "convert") = 1
    /\ Starts(log[j], "whisper") = 1
    /\ Starts(log[j], "webmconv") = 0 /\ Starts(log[j], "burn") = 0

\* C18: when the burn of a job ends, the burn step succeeds (the handler goes
\* on to read the subtitles) exactly if the burn process exited with code 0
\* and the output video exists and is not empty; otherwise the step fails
\* with a burn failure.
C18_BurnSuccessNeedsOutput ==
  [][\A j \in Jobs :
       (pc[j] = "burning" /\ pc'[j] # "burning") =>
         /\ (pc'[j] = "readsrt" /\ failedAt'[j] = "none") <=>
              /\ log'[j][Len(log'[j])] = <<"ok", "burn">>
              /\ Exists(fs', outputVideoPath(j))
              /\ fs'[outputVideoPath(j)].size > 0
         /\ pc'[j] # "readsrt" =>
              /\ pc'[j] = "cleanup"
              /\ failedAt'[j] \in {"burnerror", "burnexit", "outmissing", "outsize"}
              /\ err'[j] = "Burning subtitles failed"]_vars

\* a burn process exited with code 0 and left an empty output video: the
\* burn step has failed
C18_Witness ==
  \E j \in Jobs :
    /\ failedAt[j] = "outsize"
    /\ <<"ok", "burn">> \in Range(log[j])
    /\ fs[outputVideoPath(j)].size = 0

\* the call of job j was rejected with an input-not-found error at point
\* where, no process was started and the disk is as it was
RejectedUntouched(j, where) ==
  /\ pc'[j] = "rejected" /\ failedAt'[j] = where
  /\ err'[j] \in {"Video file not found", "Audio file not found", "Subtitle file not found"}
  /\ running' = running /\ log' = log
  /\ fs' = fs

\* C19: the extractor called with a missing video, the transcriber called
\* with a missing audio file and the burner called with a missing video or
\* a missing subtitle file reject with an input-not-found error, start no
\* external process and create or delete no file.
C19_MissingInputRejected ==
  [][\A j \in Jobs :
       /\ (CallExtractor(j) /\ ~Exists(fs, videoPath(j))) =>
            RejectedUntouched(j, "extractInput")
       /\ (CallTranscriber(j) /\ ~Exists(fs, audioPath(j))) =>
            RejectedUntouched(j, "transcribeInput")
       /\ \A copyFails \in BOOLEAN :
            (/\ CallBurner(j, copyFails)
             /\ ~Exists(fs, videoPath(j)) \/ ~Exists(fs, outputFile(j))) =>
              RejectedUntouched(j, "burnInput")]_vars

\* the burner was called with its video on the disk and its subtitle file
\* missing, and has rejected
C19_Witness ==
  \E j \in Jobs :
    /\ pc[j] = "rejected" /\ failedAt[j] = "burnInput"
    /\ err[j] = "Subtitle file not found"
    /\ Exists(fs, videoPath(j)) /\ ~Exists(fs, outputFile(j))
    /\ running[j] = {}

(***************************************************************************)
(* Properties of the synthesized subtitle file.                            *)
(***************************************************************************)
SrtDigits == <<"0", "1", "2", "3", "4", "5", "6", "7", "8", "9">>

\* s has the SubRip form HH:MM:SS,mmm
IsTimestamp(s) ==
  /\ Len(s) = 12
  /\ \A i \in {1, 2, 4, 5, 7, 8, 10, 11, 12} : s[i] \in Range(SrtDigits)
  /\ s[3] = ":" /\ s[6] = ":" /\ s[9] = ","

SrtDigitValue(c) == (CHOOSE i \in DOMAIN SrtDigits : SrtDigits[i] = c) - 1
TwoDigits(s, i) == 10 * SrtDigitValue(s[i]) + SrtDigitValue(s[i + 1])

\* the milliseconds a timestamp denotes
Millis(s) ==
  ((TwoDigits(s, 1) * 60 + TwoDigits(s, 4)) * 60 + TwoDigits(s, 7)) * 1000
    + 100 * SrtDigitValue(s[10]) + TwoDigits(s, 11)

\* doc is one SubRip cue for text: the index 1, a line `start --> end` of
\* two timestamps spanning 0 to 30 s, then the text without its bracketed
\* timestamp markers (up to surrounding blanks), then a line break
WellFormedOneCue(doc, text) ==
  /\ Len(doc) >= 33
  /\ doc[1] = "1" /\ doc[2] = "\n"
  /\ IsTimestamp(SubSeq(doc, 3, 14))
  /\ SubSeq(doc, 15, 19) = <<" ", "-", "-", ">", " ">>
  /\ IsTimestamp(SubSeq(doc, 20, 31))
  /\ doc[32] = "\n"
  /\ Millis(SubSeq(doc, 3, 14)) = 0 /\ Millis(SubSeq(doc, 20, 31)) = 30000
  /\ doc[Len(doc)] = "\n"
  /\ LET body == SubSeq(doc, 33, Len(doc) - 1)
     IN  /\ Marker \notin Range(body)
         /\ Trim(body) = Trim(SelectSeq(text, LAMBDA t : t # Marker))

\* C20 as stated: the subtitle file synthesized from a non-empty stdout is
\* one well-formed SubRip cue: index 1, a start and an end timestamp in the
\* form HH:MM:SS,mmm with start < end (0 to 30 s), then the text with its
\* bracketed timestamp markers removed.
C20_FallbackWellFormed ==
  srtContent # NoContent => WellFormedOneCue(srtContent, stdoutText)

(***************************************************************************)
(* Properties of the subtitles filter.                                     *)
(***************************************************************************)
\* the part of a filter expression that stands for the subtitle path
FilterPath(expr) == SubSeq(expr, 3, Len(expr) - 2)

\* C21: in the filter expression built for a temp subtitle path, a backslash
\* only ever stands immediately before a colon or a single quote, every
\* colon and every single quote of the path part stands immediately after a
\* backslash, and without those backslashes the path part is the path with
\* each of its backslashes replaced by a forward slash.
C21_FilterPathEscaped ==
  filterText # NoContent =>
    LET body == FilterPath(filterText) IN
      /\ \A i \in DOMAIN body :
           body[i] \in {":", "'"} => (i > 1 /\ body[i - 1] = "\\")
      /\ \A i \in DOMAIN body :
           body[i] = "\\" => (i < Len(body) /\ body[i + 1] \in {":", "'"})
      /\ SelectSeq(body, LAMBDA c : c # "\\") =
           [i \in DOMAIN srtPathText |->
              IF srtPathText[i] = "\\" THEN "/" ELSE srtPathText[i]]

\* a filter has been built for a path that holds a backslash, a colon and a
\* single quote
C21_Witness ==
  /\ filterText # NoContent
  /\ {"\\", ":", "'"} \subseteq Range(srtPathText)

(***************************************************************************)
(* Properties of an upload and a stream request side by side.              *)
(***************************************************************************)
\* the stream handler has found the file of its request and reads its size
\* or its bytes, or has answered with them
ServesArtifact(q, r) == q.pc \in {"stat", "send", "pipe"} \/ r.status \in {200, 206}

\* C22: a Video document is saved only when the burn process of its job has
\* exited with code 0, its output video exists and is not empty, and the SRT
\* of the job is still on disk, untouched by any cleanup, holding the
\* subtitle text the document stores; and whenever the stream handler reads
\* or has served a file, a document of the requested video is saved and no
\* burn process of that video's job is running.
C22_RecordAfterBurn ==
  [][/\ \A v \in db' \ db :
          /\ <<"ok", "burn">> \in Range(log[v.id]) /\ "burn" \notin running[v.id]
          /\ v.videoUrl = outputVideoPath(v.id)
          /\ Exists(fs, v.videoUrl) /\ fs[v.videoUrl].size > 0
          /\ Exists(fs, outputFile(v.id)) /\ unlinkTried[v.id] = {}
          /\ v.subtitle = fs[outputFile(v.id)].text
     /\ ServesArtifact(sreq', sresp') =>
          /\ \E v \in db' : v.id = sreq'.vid
          /\ "burn" \notin running'[sreq'.vid]]_vars

\* a stream request that arrived during or after an upload has been served
\* the whole burned video of that upload
C22_Witness ==
  /\ sresp.status = 200 /\ sresp.piped
  /\ \E v \in db : v.id = sreq.vid /\ <<"ok", "burn">> \in Range(log[v.id])

(***************************************************************************)
(* Termination of an upload.                                               *)
(***************************************************************************)
\* the three stages of job j and the save of its document have succeeded
AllSucceeded(j) ==
  /\ failedAt[j] = "none"
  /\ {<<"ok", "extract">>, <<"ok", "whisper">>, <<"ok", "burn">>} \subseteq Range(log[j])
  /\ outputFile(j) \in Range(tempFiles[j])
  /\ \E v \in db : v.id = j

\* C23: under the fair scheduling of FairSpec every request that has entered
\* the handler is eventually answered; a request has never more than one
\* response and its response never changes; the response is 201 exactly when
\* the three stages and the save succeeded and 400 or 500 otherwise; and the
\* step that sends the response has tried to unlink every entry of tempFiles.
C23_AnsweredOnceAfterCleanup ==
  /\ \A j \in Jobs : (pc[j] # "idle") ~> (pc[j] = "done" /\ Len(resp[j]) = 1)
  /\ [](\A j \in Jobs :
          /\ Len(resp[j]) <= 1
          /\ pc[j] = "done" => Len(resp[j]) = 1
          /\ resp[j] # <<>> =>
               /\ resp[j][1] \in {201, 400, 500}
               /\ resp[j][1] = 201 <=> AllSucceeded(j))
  /\ [][\A j \in Jobs : resp'[j] # resp[j] =>
          /\ resp[j] = <<>>
          /\ Range(tempFiles[j]) \subseteq unlinkTried'[j]
          /\ tempFiles'[j] = tempFiles[j]]_vars

\* a request was answered 500 after its burn process could not be started
\* and the 'close' that follows has run; the unlinks of its three tempFiles
\* came before the response
C23_Witness ==
  \E j \in Jobs :
    /\ resp[j] = <<500>> /\ failedAt[j] = "burnerror" /\ ~closePending[j]
    /\ Len(tempFiles[j]) = 3 /\ Range(tempFiles[j]) \subseteq unlinkTried[j]

\* a request was answered 201 after the unlinks of its three tempFiles
C23_WitnessCreated ==
  \E j \in Jobs :
    /\ resp[j] = <<201>> /\ AllSucceeded(j)
    /\ Len(tempFiles[j]) = 3 /\ Range(tempFiles[j]) \subseteq unlinkTried[j]

(***************************************************************************)
(* The list of transient files of a job.                                   *)
(***************************************************************************)
\* the step appends the path p to tempFiles of job j
Pushed(j, p) == tempFiles'[j] = Append(tempFiles[j], p)

\* the handler of job j has returned past the video-present check
Exit(j) == pc[j] = "done" /\ resp[j] \in {<<201>>, <<500>>}

\* C24: tempFiles of a job changes only by appending one path: first the
\* upload, stored on disk; then the WAV, after the extraction has ended
\* successfully and with the WAV on disk; then the SRT, after whisper has
\* exited 0 and with the SRT on disk and not empty.  The step that answers 201
\* or 500 tries to unlink every path of the list, and after that answer, be it
\* 201 or 500, the list holds the upload, every path of the list has had its
\* unlink tried, and a path of the list is on disk only if its unlink failed.
C24_ListGrowsAndIsCleaned ==
  /\ [][\A j \in Jobs :
          /\ tempFiles'[j] # tempFiles[j] =>
               \/ /\ tempFiles[j] = <<>> /\ Pushed(j, videoPath(j))
                  /\ Exists(fs', videoPath(j))
               \/ /\ tempFiles[j] = <<videoPath(j)>> /\ Pushed(j, audioPath(j))
                  /\ <<"ok", "extract">> \in Range(log'[j])
                  /\ Exists(fs', audioPath(j))
               \/ /\ tempFiles[j] = <<videoPath(j), audioPath(j)>> /\ Pushed(j, outputFile(j))
                  /\ <<"ok", "whisper">> \in Range(log'[j])
                  /\ Exists(fs', outputFile(j)) /\ fs'[outputFile(j)].size > 0
          /\ (resp'[j] # resp[j] /\ tempFiles[j] # <<>>) =>
               /\ tempFiles'[j] = tempFiles[j]
               /\ Range(tempFiles[j]) \subseteq unlinkTried'[j]]_vars
  /\ [](\A j \in Jobs :
          /\ tempFiles[j] # <<>> => tempFiles[j][1] = videoPath(j)
          /\ (pc[j] = "done" /\ tempFiles[j] # <<>>) => Exit(j)
          /\ Exit(j) =>
               /\ videoPath(j) \in Range(tempFiles[j])
               /\ \A p \in Range(tempFiles[j]) :
                    p \in unlinkTried[j] /\ (Exists(fs, p) => p \in unlinkFailed[j]))

\* a job failed in its first stage, with the upload alone in its list, and
\* the upload is gone; another job succeeded and its upload is gone too
C24_Witness ==
  \E j, k \in Jobs :
    /\ Failed(j) /\ tempFiles[j] = <<videoPath(j)>> /\ ~Exists(fs, videoPath(j))
    /\ Succeeded(k) /\ Len(tempFiles[k]) = 3 /\ ~Exists(fs, videoPath(k))

====
